---- MODULE Spec2Model ----
(***************************************************************************)
(* Model of .misc/update_pages.py: the sidebar synchroniser that rewrites  *)
(* the <aside> navigation of eight static HTML mock-ups and makes sure the *)
(* Material Icons stylesheet is linked.                                    *)
(*                                                                         *)
(* A document is a sequence of tokens.  A token is a piece of text; the    *)
(* tokens that the regular expression and the substring tests of the      *)
(* script can tell apart are kept apart:                                   *)
(*   OA  "<aside"      the text the pattern starts with                    *)
(*   GT  ">"           a lone closing angle bracket                        *)
(*   CA  "</aside>"    the text the pattern ends with                      *)
(*   CH  "</head>"     the marker the stylesheet link is put before        *)
(*   FONT              the substring the stylesheet test looks for         *)
(*   TXT               any other text (none of the above inside it)        *)
(***************************************************************************)
EXTENDS Integers, Sequences, FiniteSets, TLC

VARIABLES disk, orig, i, pc, content, new_sidebar, out, ops, run

vars == <<disk, orig, i, pc, content, new_sidebar, out, ops, run>>

(* ------------------------------ bounds -------------------------------- *)
(* MaxFileLen   longest document on disk at the start of a whole run (Spec) *)
(* MaxMissing   most configured files missing in a whole run (Spec)         *)
(* MaxLen       longest document put through the loop body (SpecPatch)      *)
(* MaxRuns      times the script is run over one document (SpecPatch)       *)
(* MaxAsideLen  longest document of <aside, >, </aside> and text (SpecAside)*)
MaxFileLen == 2
MaxMissing == 1
MaxLen == 4
MaxRuns == 2
MaxAsideLen == 6

(* ------------------------------ tokens -------------------------------- *)
OA == "<aside"
GT == ">"
CA == "</aside>"
CH == "</head>"
FONT == "family=Material+Icons+Round"
TXT == "text"

Alphabet == {OA, GT, CA, CH, FONT, TXT}
AsideAlphabet == {OA, GT, CA, TXT}

(* design_dir / files, in dictionary (insertion) order *)
Files ==
  << [filename |-> "dashboard.html",    page_name |-> "Dashboard"],
     [filename |-> "participants.html", page_name |-> "Participants"],
     [filename |-> "reports.html",      page_name |-> "Reports & Docs"],
     [filename |-> "ai.html",           page_name |-> "AI Assistant"],
     [filename |-> "toolkit.html",      page_name |-> "Toolkit"],
     [filename |-> "ndisplans.html",    page_name |-> "NDIS Plans"],
     [filename |-> "general.html",      page_name |-> "General"],
     [filename |-> "profile.html",      page_name |-> "Profile"] >>

NumFiles == Len(Files)

PageNames == {Files[k].page_name : k \in 1..NumFiles}

(* ------------------------- get_sidebar -------------------------------- *)
LinkBase == "flex items-center gap-3 px-2 py-2.5 rounded-DEFAULT transition-colors group"
LinkActive == " bg-primary/10 text-primary"
LinkHover == " text-text-sub-light dark:text-text-sub-dark hover:bg-gray-50 dark:hover:bg-slate-700/50 hover:text-gray-900 dark:hover:text-white"
IconBase == "material-icons-round text-[20px] transition-colors"
IconHover == " group-hover:text-primary"

link_class(page_name, active_page) ==
  IF page_name = active_page THEN LinkBase \o LinkActive
                             ELSE LinkBase \o LinkHover

(* mutant: the icon never takes the active style *)
icon_class_hover(page_name, active_page) == IconBase \o IconHover

icon_class(page_name, active_page) ==
  IF page_name = active_page THEN IconBase
                             ELSE IconBase \o IconHover

(* the links of the <nav> block, in template order *)
NavLinks ==
  << [label |-> "Dashboard",      href |-> "dashboard.html",    icon |-> "dashboard"],
     [label |-> "Participants",   href |-> "participants.html", icon |-> "people"],
     [label |-> "Reports & Docs", href |-> "reports.html",      icon |-> "assignment"],
     [label |-> "AI Assistant",   href |-> "ai.html",           icon |-> "psychology"],
     [label |-> "Toolkit",        href |-> "toolkit.html",      icon |-> "construction"],
     [label |-> "Audits",         href |-> "#",                 icon |-> "verified_user"],
     [label |-> "NDIS Plans",     href |-> "ndisplans.html",    icon |-> "history_edu"],
     [label |-> "General",        href |-> "general.html",      icon |-> "settings"],
     [label |-> "Help Center",    href |-> "#",                 icon |-> "help_outline"] >>

NumNav == Len(NavLinks)

(* one <li><a class=...><span class=...>icon</span><span>label</span></a></li> *)
RenderLink(link, lc, ic) ==
  "<li><a class='" \o lc \o "' href='" \o link.href \o "'><span class='" \o ic
    \o "'>" \o link.icon \o "</span><span class='font-medium text-sm'>"
    \o link.label \o "</span></a></li>"

RECURSIVE RenderNav(_, _)
RenderNav(k, styles) ==
  IF k > NumNav THEN ""
  ELSE RenderLink(NavLinks[k], styles[k][1], styles[k][2]) \o RenderNav(k + 1, styles)

AsideAttrs == " class='w-64 bg-surface-light dark:bg-surface-dark border-r flex flex-col h-full flex-shrink-0 z-20'"
SidebarHead == "<div class='h-16'>Quantum</div><div class='px-5 mt-4 mb-2'><input placeholder='Search data...'/></div><nav>"
SidebarFoot == "</nav><div class='p-4 border-t'><a href='profile.html'><p>Sarah Chen</p><p>Senior OT</p></a></div>"

(* the text between the opening tag and the closing tag of the fragment *)
RenderInner(styles) == SidebarHead \o RenderNav(1, styles) \o SidebarFoot

NavStyles(active_page) ==
  [k \in 1..NumNav |-> << link_class(NavLinks[k].label, active_page),
                          icon_class(NavLinks[k].label, active_page) >>]

get_sidebar(active_page) ==
  << OA, AsideAttrs, GT, RenderInner(NavStyles(active_page)), CA >>

(* --------------------------- text tests ------------------------------- *)
InnerTexts == {RenderInner(NavStyles(p)) : p \in PageNames}

icon_link == "<link href='https://fonts.googleapis.com/icon?family=Material+Icons+Round' rel='stylesheet'/>"
IconLinkNL == icon_link \o "\n"

(* the token holds a ">" character *)
HasGT(t) == t \in {GT, CA, CH, IconLinkNL} \/ t \in InnerTexts

(* the token holds the text family=Material+Icons+Round *)
HasFont(t) == t \in {FONT, IconLinkNL}

(* -------------------- pattern = <aside.*?>.*?</aside> ----------------- *)
(* A match is "<aside" at p, a ">" at some q after it, "</aside>" at some  *)
(* r after that ">".                                                       *)
IsMatch(text, p, q, r) ==
  /\ text[p] = OA
  /\ p < q /\ HasGT(text[q])
  /\ q < r /\ text[r] = CA

Min(S) == CHOOSE x \in S : \A y \in S : x <= y

Starts(text) ==
  {p \in 1..Len(text) : \E q, r \in 1..Len(text) : IsMatch(text, p, q, r)}

Max(S) == CHOOSE x \in S : \A y \in S : x >= y

(* mutant: the second .* is greedy and runs to the last </aside> *)
pattern_search_greedy(text) ==
  IF Starts(text) = {} THEN <<>>
  ELSE LET p == Min(Starts(text))
           q == Min({q1 \in 1..Len(text) : \E r1 \in 1..Len(text) : IsMatch(text, p, q1, r1)})
           r == Max({r1 \in 1..Len(text) : IsMatch(text, p, q, r1)})
       IN  <<p, r>>

(* pattern.search: the leftmost start; then each lazy .*? takes the        *)
(* shortest text that lets the rest of the pattern match                   *)
pattern_search(text) ==
  IF Starts(text) = {} THEN <<>>
  ELSE LET p == Min(Starts(text))
           q == Min({q1 \in 1..Len(text) : \E r1 \in 1..Len(text) : IsMatch(text, p, q1, r1)})
           r == Min({r1 \in 1..Len(text) : IsMatch(text, p, q, r1)})
       IN  <<p, r>>

(* pattern.sub(repl, text, count=1) *)
pattern_sub(repl, text) ==
  LET m == pattern_search(text) IN
  IF m = <<>> THEN text
  ELSE SubSeq(text, 1, m[1] - 1) \o repl \o SubSeq(text, m[2] + 1, Len(text))

(* mutant: the test looks for a text the inserted link does not hold *)
font_in_other(text) == \E k \in 1..Len(text) : text[k] = FONT

(* 'family=Material+Icons+Round' in content *)
font_in(text) == \E k \in 1..Len(text) : HasFont(text[k])

(* mutant: without a </head> the link is appended to the text *)
replace_head_or_append(text) ==
  LET RECURSIVE rep(_)
      rep(t) == IF t = <<>> THEN <<>>
                ELSE IF Head(t) = CH THEN <<IconLinkNL, CH>> \o rep(Tail(t))
                     ELSE <<Head(t)>> \o rep(Tail(t))
  IN  IF \E k \in 1..Len(text) : text[k] = CH THEN rep(text)
      ELSE Append(text, IconLinkNL)

(* content.replace('</head>', icon_link + '\n</head>') *)
RECURSIVE replace_head(_)
replace_head(text) ==
  IF text = <<>> THEN <<>>
  ELSE IF Head(text) = CH THEN <<IconLinkNL, CH>> \o replace_head(Tail(text))
       ELSE <<Head(text)>> \o replace_head(Tail(text))

(* ----------------------------- inputs --------------------------------- *)
DocsOver(A, n) == UNION {[1..k -> A] : k \in 0..n}
Docs(n) == DocsOver(Alphabet, n)

Absent == [exists |-> FALSE, text |-> <<>>]
File(d) == [exists |-> TRUE, text |-> d]

Line(kind, k) == <<kind, Files[k].filename>>

(* a whole run: some configured files are missing, the others hold d *)
Init ==
  \E d \in Docs(MaxFileLen), missing \in SUBSET (1..NumFiles) :
    /\ Cardinality(missing) <= MaxMissing
    /\ disk = [k \in 1..NumFiles |-> IF k \in missing THEN Absent ELSE File(d)]
    /\ orig = disk
    /\ i = 1
    /\ pc = "exists"
    /\ content = <<>>
    /\ new_sidebar = <<>>
    /\ out = <<>>
    /\ ops = <<>>
    /\ run = 1

(* --------------------------- the main loop ---------------------------- *)
(* mutant: a missing file ends the loop (break for continue) *)
SkipBreak ==
  /\ pc = "exists" /\ i <= NumFiles
  /\ ~disk[i].exists
  /\ out' = Append(out, Line("Skipping", i))
  /\ i' = NumFiles + 1
  /\ UNCHANGED <<disk, orig, pc, content, new_sidebar, ops, run>>

(* if not os.path.exists(filepath): print; continue *)
Skip ==
  /\ pc = "exists" /\ i <= NumFiles
  /\ ~disk[i].exists
  /\ out' = Append(out, Line("Skipping", i))
  /\ i' = i + 1
  /\ UNCHANGED <<disk, orig, pc, content, new_sidebar, ops, run>>

Exists ==
  /\ pc = "exists" /\ i <= NumFiles
  /\ disk[i].exists
  /\ pc' = "read"
  /\ UNCHANGED <<disk, orig, i, content, new_sidebar, out, ops, run>>

(* with open(filepath, 'r') as f: content = f.read() *)
ReadStep ==
  /\ pc = "read"
  /\ content' = disk[i].text
  /\ ops' = Append(ops, <<"read", i>>)
  /\ pc' = "sidebar"
  /\ UNCHANGED <<disk, orig, i, new_sidebar, out, run>>

(* open or read raises (permissions, encoding): nothing catches it *)
ReadFail ==
  /\ pc = "read"
  /\ pc' = "aborted"
  /\ UNCHANGED <<disk, orig, i, content, new_sidebar, out, ops, run>>

(* mutant: the fragment is built for the first configured page *)
SidebarStepStale ==
  /\ pc = "sidebar"
  /\ new_sidebar' = get_sidebar(Files[1].page_name)
  /\ IF pattern_search(content) # <<>>
       THEN /\ content' = pattern_sub(new_sidebar', content)
            /\ out' = Append(out, Line("Updated", i))
       ELSE /\ content' = content
            /\ out' = Append(out, Line("Warning", i))
  /\ pc' = "style"
  /\ UNCHANGED <<disk, orig, i, ops, run>>

(* 1. Update Sidebar *)
SidebarStep ==
  /\ pc = "sidebar"
  /\ new_sidebar' = get_sidebar(Files[i].page_name)
  /\ IF pattern_search(content) # <<>>
       THEN /\ content' = pattern_sub(new_sidebar', content)
            /\ out' = Append(out, Line("Updated", i))
       ELSE /\ content' = content
            /\ out' = Append(out, Line("Warning", i))
  /\ pc' = "style"
  /\ UNCHANGED <<disk, orig, i, ops, run>>

(* 2. Ensure Material Icons Round is linked *)
StyleStep ==
  /\ pc = "style"
  /\ IF ~font_in(content)
       THEN /\ content' = replace_head(content)
            /\ out' = Append(out, Line("Added", i))
       ELSE UNCHANGED <<content, out>>
  /\ pc' = "write"
  /\ UNCHANGED <<disk, orig, i, new_sidebar, ops, run>>

(* mutant: the file is written only when the text changed *)
WriteStepIfChanged ==
  /\ pc = "write"
  /\ IF content # disk[i].text
       THEN /\ disk' = [disk EXCEPT ![i].text = content]
            /\ ops' = Append(ops, <<"write", i>>)
       ELSE UNCHANGED <<disk, ops>>
  /\ i' = i + 1
  /\ pc' = "exists"
  /\ UNCHANGED <<orig, content, new_sidebar, out, run>>

(* with open(filepath, 'w') as f: f.write(content) *)
WriteStep ==
  /\ pc = "write"
  /\ disk' = [disk EXCEPT ![i].text = content]
  /\ ops' = Append(ops, <<"write", i>>)
  /\ i' = i + 1
  /\ pc' = "exists"
  /\ UNCHANGED <<orig, content, new_sidebar, out, run>>

(* mutant: a failed write puts every file back as the run found it *)
WriteFailRollback ==
  /\ pc = "write"
  /\ disk' = orig
  /\ pc' = "aborted"
  /\ UNCHANGED <<orig, i, content, new_sidebar, out, ops, run>>

(* open(.., 'w') raises and the file is as it was, or the write raises     *)
(* after open truncated the file                                           *)
WriteFail ==
  /\ pc = "write"
  /\ \E truncated \in BOOLEAN :
       disk' = [disk EXCEPT ![i].text = IF truncated THEN <<>> ELSE @]
  /\ pc' = "aborted"
  /\ UNCHANGED <<orig, i, content, new_sidebar, out, ops, run>>

(* print("All files processed.") *)
Finish ==
  /\ pc = "exists" /\ i > NumFiles
  /\ out' = Append(out, <<"AllProcessed", "">>)
  /\ pc' = "done"
  /\ UNCHANGED <<disk, orig, i, content, new_sidebar, ops, run>>

Next ==
  \/ Skip
  \/ Exists
  \/ ReadStep
  \/ ReadFail
  \/ SidebarStep
  \/ StyleStep
  \/ WriteStep
  \/ WriteFail
  \/ Finish

Spec == Init /\ [][Next]_vars

(* ------------------- one document through the loop body --------------- *)
SkipLines(k) == [j \in 1..(k - 1) |-> Line("Skipping", j)]

(* the state of a run right after it read file k, the only configured file *)
(* on disk, which holds d                                                  *)
AfterRead(d, k) ==
  /\ disk = [j \in 1..NumFiles |-> IF j = k THEN File(d) ELSE Absent]
  /\ orig = disk
  /\ i = k
  /\ pc = "sidebar"
  /\ content = d
  /\ new_sidebar = <<>>
  /\ out = SkipLines(k)
  /\ ops = << <<"read", k>> >>
  /\ run = 1

InitPatch == \E d \in Docs(MaxLen), k \in 1..NumFiles : AfterRead(d, k)

InitAside == \E d \in DocsOver(AsideAlphabet, MaxAsideLen), k \in 1..NumFiles : AfterRead(d, k)

(* the script is run again and reads the file the last run wrote *)
RereadStep ==
  /\ pc = "exists" /\ i > 1 /\ disk[i - 1].exists
  /\ run < MaxRuns
  /\ run' = run + 1
  /\ orig' = disk
  /\ i' = i - 1
  /\ content' = disk[i - 1].text
  /\ new_sidebar' = <<>>
  /\ out' = SkipLines(i - 1)
  /\ ops' = << <<"read", i - 1>> >>
  /\ pc' = "sidebar"
  /\ UNCHANGED disk

NextPatch ==
  \/ SidebarStep
  \/ StyleStep
  \/ WriteStep
  \/ RereadStep

SpecPatch == InitPatch /\ [][NextPatch]_vars

NextAside ==
  \/ SidebarStep
  \/ StyleStep
  \/ WriteStep

SpecAside == InitAside /\ [][NextAside]_vars

(* ============================ properties ============================== *)
Range(f) == {f[k] : k \in DOMAIN f}

Positions(text, tok) == {k \in 1..Len(text) : text[k] = tok}

(* the text without the inserted stylesheet links *)
RECURSIVE Strip(_)
Strip(text) ==
  IF text = <<>> THEN <<>>
  ELSE IF Head(text) = IconLinkNL THEN Strip(Tail(text))
       ELSE <<Head(text)>> \o Strip(Tail(text))

ActivePair == << LinkBase \o LinkActive, IconBase >>
HoverPair == << LinkBase \o LinkHover, IconBase \o IconHover >>

(* the fragment with nav link k, and no other, in the active style pair    *)
(* (k = 0: every nav link in the hover style pair)                         *)
Fragments ==
  [k \in 0..NumNav |->
     << OA, AsideAttrs, GT,
        RenderInner([j \in 1..NumNav |-> IF j = k THEN ActivePair ELSE HoverPair]),
        CA >>]

FragmentWithActive(k) == Fragments[k]

(* the file the loop body is working on, and the text it read *)
InBody == pc \in {"style", "write"}
PageOfI == Files[i].page_name
ReadText == orig[i].text

(* ---- C1 -------------------------------------------------------------- *)
(* d holds exactly one "<aside", closed by a ">" of its own, and exactly   *)
(* one "</aside>", after that ">"                                          *)
WellFormedSingle(d) ==
  /\ Cardinality(Positions(d, OA)) = 1
  /\ Cardinality(Positions(d, CA)) = 1
  /\ LET p == Min(Positions(d, OA))
         r == Min(Positions(d, CA))
     IN  /\ p < r
         /\ \E q \in (p + 1)..(r - 1) :
              /\ d[q] = GT
              /\ \A j \in (p + 1)..(q - 1) : ~HasGT(d[j])

Before(d) == SubSeq(d, 1, Min(Positions(d, OA)) - 1)
After(d) == SubSeq(d, Min(Positions(d, CA)) + 1, Len(d))

ExpectedC1(d, page) == Before(d) \o get_sidebar(page) \o After(d)

(* C1: for each of the 8 configured pages, a document with one well-formed *)
(* outer <aside ...>...</aside> container comes out with the container     *)
(* replaced by get_sidebar(displayName) and the text before and after it   *)
(* as it was, apart from stylesheet links: right after the sidebar step,   *)
(* in the text handed to the write, and in the file once written.          *)
C1_ContainerReplaced ==
  /\ (InBody /\ WellFormedSingle(ReadText)) =>
       /\ pc = "style" => content = ExpectedC1(ReadText, PageOfI)
       /\ Strip(content) = Strip(ExpectedC1(ReadText, PageOfI))
  /\ (pc = "exists" /\ i > 1 /\ orig[i - 1].exists /\ WellFormedSingle(orig[i - 1].text)) =>
       Strip(disk[i - 1].text) = Strip(ExpectedC1(orig[i - 1].text, Files[i - 1].page_name))

(* a well-formed container with text before it or after it has been        *)
(* replaced and written, for the last configured page                      *)
C1_Witness ==
  /\ pc = "exists" /\ i = NumFiles + 1 /\ run = 1
  /\ WellFormedSingle(orig[NumFiles].text)
  /\ Before(orig[NumFiles].text) # <<>>
  /\ disk[NumFiles].text = Before(orig[NumFiles].text) \o get_sidebar("Profile")

(* ---- C2 -------------------------------------------------------------- *)
(* C2 as stated: the fragment built for the configured page has exactly    *)
(* one nav link in the active style pair and every other nav link in the   *)
(* hover style pair.                                                       *)
C2_ExactlyOneActive ==
  InBody => \E k \in 1..NumNav : new_sidebar = FragmentWithActive(k)

(* C2, amended: for every configured page except "Profile" exactly one nav *)
(* link, the one labelled with the page, is in the active style pair and   *)
(* the others are in the hover pair; for "Profile", which is no nav link,  *)
(* every nav link is in the hover pair.                                    *)
C2_OneActiveUnlessProfile ==
  InBody =>
    IF PageOfI = "Profile"
      THEN new_sidebar = FragmentWithActive(0)
      ELSE /\ \E k \in 1..NumNav : /\ NavLinks[k].label = PageOfI
                                   /\ new_sidebar = FragmentWithActive(k)
           /\ Cardinality({k \in 1..NumNav : new_sidebar = FragmentWithActive(k)}) = 1

(* the fragment has been built for a page that is a nav link *)
C2_Witness ==
  /\ pc = "style" /\ PageOfI = "NDIS Plans"
  /\ new_sidebar = FragmentWithActive(7)

(* ---- C3 -------------------------------------------------------------- *)
(* C3: a second run over the output of the first leaves the text as it is: *)
(* the sidebar step and the stylesheet step of the second run both yield   *)
(* the text the first run wrote, and that text is what is written back.    *)
C3_Idempotent ==
  /\ (run >= 2 /\ InBody) => content = ReadText
  /\ (run >= 2 /\ pc = "exists" /\ i > 1) => disk[i - 1].text = orig[i - 1].text

(* the second run has written a document in which the first run replaced   *)
(* the sidebar and inserted the stylesheet link                            *)
C3_Witness ==
  /\ run = 2 /\ pc = "exists" /\ i > 1
  /\ IconLinkNL \in Range(disk[i - 1].text)
  /\ Positions(disk[i - 1].text, AsideAttrs) # {}

(* ---- C4 -------------------------------------------------------------- *)
(* C4: the iteration for a configured file that does not exist prints the  *)
(* skip notice, reads and writes nothing, leaves the disk as it is and     *)
(* goes on to the next configured file.                                    *)
C4_MissingSkipped ==
  [][(pc = "exists" /\ i <= NumFiles /\ ~disk[i].exists) =>
       /\ out' = Append(out, Line("Skipping", i))
       /\ disk' = disk
       /\ ops' = ops
       /\ i' = i + 1 /\ pc' = "exists"]_vars

(* a missing file was skipped and a later file has been read *)
C4_Witness ==
  \E k \in 1..NumFiles :
    /\ ~disk[k].exists /\ k < i
    /\ Line("Skipping", k) \in Range(out)
    /\ \E j \in (k + 1)..NumFiles : <<"read", j>> \in Range(ops)

(* ---- C5 -------------------------------------------------------------- *)
NoMatch(d) == \A p, q, r \in 1..Len(d) : ~IsMatch(d, p, q, r)

Written(k) == orig[k].exists /\ k < i

(* C5 as stated: a file without a match for the pattern gets the warning   *)
(* and is written back with the text that was read.                        *)
C5_IdentityWrite ==
  \A k \in 1..NumFiles : (Written(k) /\ NoMatch(orig[k].text)) =>
     /\ Line("Warning", k) \in Range(out)
     /\ disk[k].text = orig[k].text

(* C5, amended: a file without a match gets the warning and no update      *)
(* line, and the text written back is the text read apart from the         *)
(* stylesheet link of the later step; it is the text read when that text   *)
(* names the font family or has no </head>.                                *)
C5_IdentityUpToLink ==
  \A k \in 1..NumFiles : (Written(k) /\ NoMatch(orig[k].text)) =>
     /\ Line("Warning", k) \in Range(out)
     /\ Line("Updated", k) \notin Range(out)
     /\ Strip(disk[k].text) = orig[k].text
     /\ (FONT \in Range(orig[k].text) \/ CH \notin Range(orig[k].text)) =>
          disk[k].text = orig[k].text

(* a file without a match and without </head> has been written back *)
C5_Witness ==
  \E k \in 1..NumFiles :
    /\ Written(k) /\ NoMatch(orig[k].text)
    /\ OA \in Range(orig[k].text) /\ CH \notin Range(orig[k].text)
    /\ <<"write", k>> \in Range(ops)

(* ---- C6 -------------------------------------------------------------- *)
InsertLinkAt(text, k) ==
  SubSeq(text, 1, k - 1) \o <<IconLinkNL>> \o SubSeq(text, k, Len(text))

(* C6: the stylesheet step leaves a text that names the font family as it  *)
(* is; otherwise, if the text has </head>, it inserts one copy of the link *)
(* right before that marker and changes nothing else; otherwise it leaves  *)
(* the text as it is.                                                      *)
C6_OneLinkBeforeHead ==
  [][pc = "style" =>
       IF font_in(content) THEN content' = content
       ELSE IF CH \in Range(content)
              THEN \E k \in Positions(content, CH) : content' = InsertLinkAt(content, k)
              ELSE content' = content]_vars

(* ---- C7 -------------------------------------------------------------- *)
RECURSIVE ExpectedOps(_)
(* read k, write k for every configured file among 1..n that exists *)
ExpectedOps(n) ==
  IF n = 0 THEN <<>>
  ELSE ExpectedOps(n - 1) \o
         (IF orig[n].exists THEN << <<"read", n>>, <<"write", n>> >> ELSE <<>>)

IsPrefix(s, t) == Len(s) <= Len(t) /\ s = SubSeq(t, 1, Len(s))

(* C7: the reads and writes of a run are, in configured order, one read    *)
(* and then one write per existing file, whatever the two steps changed:   *)
(* at every point a prefix of that sequence, and all of it once the run    *)
(* has finished.                                                           *)
C7_ReadOnceWriteOnce ==
  /\ IsPrefix(ops, ExpectedOps(NumFiles))
  /\ pc = "done" => ops = ExpectedOps(NumFiles)

(* a run has finished in which a file was written back unchanged *)
C7_Witness ==
  /\ pc = "done"
  /\ \E k \in 1..NumFiles :
       /\ orig[k].exists /\ disk[k].text = orig[k].text
       /\ <<"write", k>> \in Range(ops)

(* ---- C8 -------------------------------------------------------------- *)
(* the first "<aside", the first ">" after it (the end of the opening      *)
(* tag), the first "</aside>" after that ">"; 0 where there is none        *)
FirstFrom(S) == IF S = {} THEN 0 ELSE Min(S)
FirstOpen(d) == FirstFrom(Positions(d, OA))
TagEnd(d) ==
  IF FirstOpen(d) = 0 THEN 0
  ELSE FirstFrom({q \in (FirstOpen(d) + 1)..Len(d) : HasGT(d[q])})
FirstClose(d) ==
  IF TagEnd(d) = 0 THEN 0
  ELSE FirstFrom({r \in (TagEnd(d) + 1)..Len(d) : d[r] = CA})

(* C8: the sidebar step replaces one span: from the first "<aside" of the  *)
(* document to the first "</aside>" after that opening tag, whatever is    *)
(* nested in between; the text before the span and all the text after it,  *)
(* an outer </aside> and later containers included, is kept.  Without      *)
(* such a span the text is left as it is.                                  *)
C8_FirstOpenToFirstClose ==
  pc = "style" =>
    IF FirstClose(ReadText) = 0 THEN content = ReadText
    ELSE content = SubSeq(ReadText, 1, FirstOpen(ReadText) - 1)
                     \o get_sidebar(PageOfI)
                     \o SubSeq(ReadText, FirstClose(ReadText) + 1, Len(ReadText))

(* an <aside> container nested in the outer one: the span ended at the     *)
(* inner close and the outer </aside> is still in the text                 *)
C8_Witness ==
  /\ pc = "style"
  /\ ReadText = <<OA, GT, OA, GT, CA, CA>>
  /\ content = get_sidebar(PageOfI) \o <<CA>>

(* ---- C9 -------------------------------------------------------------- *)
Patched(d, k) ==
  LET t == pattern_sub(get_sidebar(Files[k].page_name), d)
  IN  IF font_in(t) THEN t ELSE replace_head(t)

WritesTo(k) == Cardinality({n \in 1..Len(ops) : ops[n] = <<"write", k>>})

(* C9: at every point of a run, aborted or not, the existing files before  *)
(* the current position hold their patched text, each written once, and    *)
(* the files after it are as the run found them, never written.            *)
C9_NoTransaction ==
  \A k \in 1..NumFiles :
    /\ k < i => /\ disk[k] = [orig[k] EXCEPT !.text = IF orig[k].exists THEN Patched(@, k) ELSE @]
                /\ WritesTo(k) = IF orig[k].exists THEN 1 ELSE 0
    /\ k > i => /\ disk[k] = orig[k]
                /\ WritesTo(k) = 0

(* the run aborted in the middle: an earlier file is changed, the later    *)
(* files are untouched                                                     *)
C9_Witness ==
  /\ pc = "aborted" /\ 1 < i /\ i < NumFiles
  /\ \E k \in 1..(i - 1) : disk[k].text # orig[k].text
  /\ \A k \in (i + 1)..NumFiles : disk[k] = orig[k]

(* ---- C10 ------------------------------------------------------------- *)
(* C10: for the file about to be written, the "Added Material Icons link"  *)
(* line is there exactly if the link was inserted into the text, and       *)
(* exactly one of the "Updated sidebar" line and the warning is there.     *)
C10_StatusLinesTrue ==
  pc = "write" =>
    /\ (Line("Added", i) \in Range(out)) <=> (IconLinkNL \in Range(content))
    /\ (Line("Updated", i) \in Range(out)) # (Line("Warning", i) \in Range(out))

====
